---- MODULE Spec2Model ----
(***************************************************************************)
(* The LoRaWAN gateway of LoRaEnergySim (Gateway.py): the link-budget      *)
(* filter, the per-transmitter SNR history, the ADR controller, the        *)
(* duty-cycle check and the choice of the downlink window.                 *)
(*                                                                         *)
(* Units.  Times (now, time on air, the ledger) are integers of one        *)
(* abstract time unit.  Signal strengths are whole dBm, SNR samples whole  *)
(* dB.  The ADR margin is computed in half-dB (every quantity doubled), so *)
(* that the required SNR of -7.5, -12.5 and -17.5 dB stay integers.        *)
(* Frequencies are in kHz.                                                 *)
(***************************************************************************)
EXTENDS Integers, Sequences, FiniteSets, TLC

VARIABLES
    packet_history,          \* self.packet_history: node_id -> deque(maxlen=20) of SNR
    channel_time_used,       \* self.channel_time_used: frequency -> time on air used
    downlink_packets_lost,   \* self.downlink_packets_lost: packets (by id)
    uplink_packet_weak,      \* self.uplink_packet_weak: packets (by id)
    num_of_packet_received,  \* self.num_of_packet_received
    now,                     \* self.env.now, the value passed as `now`
    call,                    \* the arguments of the call in progress / last made
    pc,                      \* "idle" | "arrived" | "returned" | "raised"
    downlink_message,        \* the dict packet_received returned
    frame,                   \* the locals of the last packet_received
    calls,                   \* number of arrivals so far (also the packet id)
    accepted,                \* ghost: node_id -> every SNR ever appended
    link_rss                 \* environment of SpecAdr: the link's best strength

vars == << packet_history, channel_time_used, downlink_packets_lost,
           uplink_packet_weak, num_of_packet_received, now, call, pc,
           downlink_message, frame, calls, accepted, link_rss >>

-----------------------------------------------------------------------------
(* Bounds of the model *)

MaxCalls == 3
MaxCallsFilter == 2
MaxCallsAdr == 23
MaxWeakAdr == 1

-----------------------------------------------------------------------------
(* Program constants *)

\* Gateway.SENSITIVITY
SENSITIVITY == [sf \in 6..12 |->
    CASE sf = 6 -> -121 [] sf = 7 -> -124 [] sf = 8 -> -127 [] sf = 9 -> -130
      [] sf = 10 -> -133 [] sf = 11 -> -135 [] sf = 12 -> -137]

\* deque(maxlen=20), and the `len(history) is 20` of adr
HISTORY_MAXLEN == 20

\* the payload size packet_received passes to check_duty_cycle
DOWNLINK_PAYLOAD == 12

\* TXmin and TXmax of adr, the highest data rate
TX_MIN == 2
TX_MAX == 14
DR_MAX == 5

\* LoRaParameters (EU868): the channels, the RX2 window, the caps, the margin
DEFAULT_CHANNELS == {868100, 868300, 868500}
RX_2_DEFAULT_FREQ == 869525
RX_2_DEFAULT_SF == 12
CHANNELS == DEFAULT_CHANNELS \cup {RX_2_DEFAULT_FREQ}
CHANNEL_DUTY_CYCLE_PROC == [f \in CHANNELS |-> IF f = RX_2_DEFAULT_FREQ THEN 10 ELSE 1]
ADR_MARGIN_DB == 10

\* LoRaPacket.time_on_air for a 125 kHz, CR 4/5 downlink: it grows with the
\* spreading factor and does not depend on the frequency
time_on_air(payload_size, sf) ==
    CASE sf = 6 -> 1 [] sf = 7 -> 2 [] sf = 8 -> 3 [] sf = 9 -> 6
      [] sf = 10 -> 12 [] sf = 11 -> 24 [] sf = 12 -> 48

\* snr_model.rss_to_snr: the strength above the noise floor
NOISE_FLOOR == -117
rss_to_snr(rss) == rss - NOISE_FLOOR

-----------------------------------------------------------------------------
(* Helpers *)

SeqMax(s) == CHOOSE m \in {s[i] : i \in 1..Len(s)} :
                \A i \in 1..Len(s) : s[i] <= m

\* the last n elements of s (all of s when it is shorter)
LastN(s, n) == IF Len(s) <= n THEN s ELSE SubSeq(s, Len(s) - n + 1, Len(s))

\* DequeAppend dropping the new sample, not the oldest, once full
DequeAppendKeepsOldest(d, x) ==
    IF Len(d) < HISTORY_MAXLEN THEN Append(d, x) ELSE d

\* deque(maxlen=20).append
DequeAppend(d, x) == LastN(Append(d, x), HISTORY_MAXLEN)

\* NpRound rounding halves up
NpRoundHalfUp(n, d) ==
    LET q == n \div d
        r == n % d
    IN  IF 2 * r < d THEN q ELSE q + 1

\* np.round(n / d) for d > 0: to the nearest integer, halves to the even one
NpRound(n, d) ==
    LET q == n \div d
        r == n % d
    IN  IF 2 * r < d THEN q
        ELSE IF 2 * r > d THEN q + 1
        ELSE IF q % 2 = 0 THEN q ELSE q + 1

Max2(a, b) == IF a >= b THEN a ELSE b
Min2(a, b) == IF a <= b THEN a ELSE b

EmptyDict == [k \in {} |-> TRUE]
NoCall == [node_id |-> 0]
NoFrame == [error |-> "none"]

-----------------------------------------------------------------------------
(* Gateway.check_duty_cycle *)

\* DutyCycleAllowed leaving the new transmission out of the time on air
DutyCycleIgnoresNewAirtime(on_time, toa, t, cap) ==
    on_time * 100 <= cap * (t + toa)

\* DutyCycleAllowed refusing a duty cycle equal to the cap
DutyCycleStrict(on_time, toa, t, cap) ==
    (on_time + toa) * 100 < cap * (t + toa)

\* (on_time + time_on_air) / (now + time_on_air) * 100 <= cap, in exact
\* arithmetic (now + time_on_air > 0: a time on air is positive)
DutyCycleAllowed(on_time, toa, t, cap) ==
    (on_time + toa) * 100 <= cap * (t + toa)

\* check_duty_cycle without the shortcut of an unused channel
check_duty_cycle_no_shortcut(used, payload_size, sf, freq, t) ==
    LET toa == time_on_air(payload_size, sf)
    IN  IF freq \notin DOMAIN used \/ freq \notin DOMAIN CHANNEL_DUTY_CYCLE_PROC
          THEN [error |-> "KeyError", possible |-> FALSE, time_on_air |-> toa]
        ELSE [error |-> "none",
              possible |-> (used[freq] + toa) * 100
                              <= CHANNEL_DUTY_CYCLE_PROC[freq] * (t + toa),
              time_on_air |-> toa]

\* check_duty_cycle reading a frequency that is no key as an unused channel
check_duty_cycle_defaulting(used, payload_size, sf, freq, t) ==
    LET toa == time_on_air(payload_size, sf)
    IN  IF freq \notin DOMAIN used \/ used[freq] = 0
          THEN [error |-> "none", possible |-> TRUE, time_on_air |-> toa]
        ELSE IF freq \notin DOMAIN CHANNEL_DUTY_CYCLE_PROC
          THEN [error |-> "KeyError", possible |-> FALSE, time_on_air |-> toa]
        ELSE [error |-> "none",
              possible |-> DutyCycleAllowed(used[freq], toa, t,
                                            CHANNEL_DUTY_CYCLE_PROC[freq]),
              time_on_air |-> toa]

\* The result of check_duty_cycle on the ledger `used`: the pair
\* (possible, time_on_air), or the KeyError of a frequency that is no key
check_duty_cycle(used, payload_size, sf, freq, t) ==
    LET toa == time_on_air(payload_size, sf)
    IN  IF freq \notin DOMAIN used
          THEN [error |-> "KeyError", possible |-> FALSE, time_on_air |-> toa]
        ELSE IF used[freq] = 0
          THEN [error |-> "none", possible |-> TRUE, time_on_air |-> toa]
        ELSE IF freq \notin DOMAIN CHANNEL_DUTY_CYCLE_PROC
          THEN [error |-> "KeyError", possible |-> FALSE, time_on_air |-> toa]
        ELSE [error |-> "none",
              possible |-> DutyCycleAllowed(used[freq], toa, t,
                                            CHANNEL_DUTY_CYCLE_PROC[freq]),
              time_on_air |-> toa]

-----------------------------------------------------------------------------
(* Gateway.adr *)

AdrNone == [kind |-> "None"]
AdrUnbound == [kind |-> "UnboundLocalError"]

\* adr_required_snr, doubled; no branch of the chain binds it for another sf
HasRequiredSnr(sf) == sf \in 7..12
RequiredSnr2(sf) ==
    CASE sf = 7 -> -15 [] sf = 8 -> -20 [] sf = 9 -> -25
      [] sf = 10 -> -30 [] sf = 11 -> -35 [] sf = 12 -> -40

\* snr_margin, doubled
SnrMargin2(history, sf) == 2 * SeqMax(history) - RequiredSnr2(sf) - 2 * ADR_MARGIN_DB

\* num_steps = np.round(snr_margin / 3)
NumSteps(history, sf) == NpRound(SnrMargin2(history, sf), 6)

\* positive steps lower the power before the data rate is raised
AdrStepsPowerFirst(num_steps, current_dr, current_tx_power) ==
    IF num_steps > 0 THEN
        [kind |-> "dict", dr |-> current_dr,
         tp |-> Max2(current_tx_power - num_steps * 3, TX_MIN)]
    ELSE IF num_steps < 0 THEN
        [kind |-> "dict", dr |-> current_dr,
         tp |-> Min2(current_tx_power + ((- num_steps) * 3), TX_MAX)]
    ELSE [kind |-> "dict", dr |-> current_dr, tp |-> current_tx_power]

\* the remaining steps lower the power with no floor
AdrStepsNoFloor(num_steps, current_dr, current_tx_power) ==
    IF num_steps > 0 THEN
        LET num_steps_possible_dr == DR_MAX - current_dr
        IN  IF num_steps > num_steps_possible_dr
              THEN [kind |-> "dict",
                    dr |-> current_dr + num_steps_possible_dr,
                    tp |-> current_tx_power
                             - (num_steps - num_steps_possible_dr) * 3]
              ELSE [kind |-> "dict", dr |-> current_dr + num_steps,
                    tp |-> current_tx_power]
    ELSE IF num_steps < 0 THEN
        [kind |-> "dict", dr |-> current_dr,
         tp |-> Min2(current_tx_power + ((- num_steps) * 3), TX_MAX)]
    ELSE [kind |-> "dict", dr |-> current_dr, tp |-> current_tx_power]

\* negative steps raise the power with no ceiling
AdrStepsNoCeiling(num_steps, current_dr, current_tx_power) ==
    IF num_steps > 0 THEN
        LET num_steps_possible_dr == DR_MAX - current_dr
        IN  IF num_steps > num_steps_possible_dr
              THEN [kind |-> "dict",
                    dr |-> current_dr + num_steps_possible_dr,
                    tp |-> Max2(current_tx_power
                                  - (num_steps - num_steps_possible_dr) * 3, TX_MIN)]
              ELSE [kind |-> "dict", dr |-> current_dr + num_steps,
                    tp |-> current_tx_power]
    ELSE IF num_steps < 0 THEN
        [kind |-> "dict", dr |-> current_dr,
         tp |-> current_tx_power + ((- num_steps) * 3)]
    ELSE [kind |-> "dict", dr |-> current_dr, tp |-> current_tx_power]

\* the branches on num_steps
AdrSteps(num_steps, current_dr, current_tx_power) ==
    IF num_steps > 0 THEN
        LET num_steps_possible_dr == DR_MAX - current_dr
        IN  IF num_steps > num_steps_possible_dr
              THEN [kind |-> "dict",
                    dr |-> current_dr + num_steps_possible_dr,
                    tp |-> Max2(current_tx_power
                                  - (num_steps - num_steps_possible_dr) * 3, TX_MIN)]
              ELSE [kind |-> "dict", dr |-> current_dr + num_steps,
                    tp |-> current_tx_power]
    ELSE IF num_steps < 0 THEN
        [kind |-> "dict", dr |-> current_dr,
         tp |-> Min2(current_tx_power + ((- num_steps) * 3), TX_MAX)]
    ELSE [kind |-> "dict", dr |-> current_dr, tp |-> current_tx_power]

\* adr(from_node, packet) on the history of from_node: a proposal, None, or
\* the UnboundLocalError of line 132 for a spreading factor outside 7..12
adr(history, lora_param) ==
    IF Len(history) = HISTORY_MAXLEN THEN
        IF ~ HasRequiredSnr(lora_param.sf) THEN AdrUnbound
        ELSE AdrSteps(NumSteps(history, lora_param.sf), lora_param.dr, lora_param.tp)
    ELSE AdrNone

-----------------------------------------------------------------------------
(* Gateway.__init__ *)

Nodes == {1, 2}

Init ==
    /\ packet_history = EmptyDict
    /\ channel_time_used = [f \in CHANNELS \cup DEFAULT_CHANNELS |-> 0]
    /\ downlink_packets_lost = << >>
    /\ uplink_packet_weak = << >>
    /\ num_of_packet_received = 0
    /\ now = 0
    /\ call = NoCall
    /\ pc = "idle"
    /\ downlink_message = EmptyDict
    /\ frame = NoFrame
    /\ calls = 0
    /\ accepted = [n \in Nodes |-> << >>]
    /\ link_rss = 0

-----------------------------------------------------------------------------
(* Gateway.packet_received *)

\* creating the history of a new transmitter empties the other histories
LazyHistoryResetsOthers(history, node_id) ==
    IF node_id \in DOMAIN history THEN history
    ELSE [n \in DOMAIN history \cup {node_id} |-> << >>]

\* lines 41-42: the history of a transmitter is created on its first packet
LazyHistory(history, node_id) ==
    IF node_id \in DOMAIN history THEN history
    ELSE [n \in DOMAIN history \cup {node_id} |->
            IF n = node_id THEN << >> ELSE history[n]]

\* line 44: the packet received is too weak
IsWeak(rss, sf) == rss < SENSITIVITY[sf]

\* SelectWindow with the data-rate test off by one (dr >= 3 prefers RX1)
SelectWindowOffByOne(dr, possible_rx1, possible_rx2) ==
    IF dr >= 3 THEN
        IF possible_rx1 THEN [tx_on_rx1 |-> TRUE, lost |-> FALSE]
        ELSE IF possible_rx2 THEN [tx_on_rx1 |-> FALSE, lost |-> FALSE]
        ELSE [tx_on_rx1 |-> FALSE, lost |-> TRUE]
    ELSE
        IF possible_rx2 THEN [tx_on_rx1 |-> FALSE, lost |-> FALSE]
        ELSE IF possible_rx1 THEN [tx_on_rx1 |-> TRUE, lost |-> FALSE]
        ELSE [tx_on_rx1 |-> FALSE, lost |-> TRUE]

\* SelectWindow without the fall-back of a slow uplink on RX1
SelectWindowNoFallback(dr, possible_rx1, possible_rx2) ==
    IF dr > 3 THEN
        IF possible_rx1 THEN [tx_on_rx1 |-> TRUE, lost |-> FALSE]
        ELSE IF possible_rx2 THEN [tx_on_rx1 |-> FALSE, lost |-> FALSE]
        ELSE [tx_on_rx1 |-> FALSE, lost |-> TRUE]
    ELSE
        IF possible_rx2 THEN [tx_on_rx1 |-> FALSE, lost |-> FALSE]
        ELSE [tx_on_rx1 |-> FALSE, lost |-> TRUE]

\* lines 61-84: the window of the downlink, or its loss
SelectWindow(dr, possible_rx1, possible_rx2) ==
    IF dr > 3 THEN
        IF ~ possible_rx1 THEN
            IF ~ possible_rx2 THEN [tx_on_rx1 |-> FALSE, lost |-> TRUE]
            ELSE [tx_on_rx1 |-> FALSE, lost |-> FALSE]
        ELSE [tx_on_rx1 |-> TRUE, lost |-> FALSE]
    ELSE
        IF ~ possible_rx2 THEN
            IF ~ possible_rx1 THEN [tx_on_rx1 |-> FALSE, lost |-> TRUE]
            ELSE [tx_on_rx1 |-> TRUE, lost |-> FALSE]
        ELSE [tx_on_rx1 |-> FALSE, lost |-> FALSE]

\* LedgerAfter charging the RX2 channel for a downlink sent on RX1
LedgerAfterWrongChannel(used, decision, freq, rx1, rx2) ==
    IF decision.lost THEN used
    ELSE IF decision.tx_on_rx1
      THEN [used EXCEPT ![RX_2_DEFAULT_FREQ] = @ + rx1.time_on_air]
      ELSE [used EXCEPT ![RX_2_DEFAULT_FREQ] = @ + rx2.time_on_air]

\* a scheduled downlink gives its airtime back to the channel
LedgerAfterRefund(used, decision, freq, rx1, rx2) ==
    IF decision.lost THEN used
    ELSE IF decision.tx_on_rx1
      THEN [used EXCEPT ![freq] = @ - rx1.time_on_air]
      ELSE [used EXCEPT ![RX_2_DEFAULT_FREQ] = @ - rx2.time_on_air]

\* lines 89-93: the ledger after the decision
LedgerAfter(used, decision, freq, rx1, rx2) ==
    IF decision.lost THEN used
    ELSE IF decision.tx_on_rx1
      THEN [used EXCEPT ![freq] = @ + rx1.time_on_air]
      ELSE [used EXCEPT ![RX_2_DEFAULT_FREQ] = @ + rx2.time_on_air]

\* the ADR fields are attached only to a scheduled downlink
DecisionRecordNoAdrWhenLost(decision, adr_settings) ==
    IF adr_settings.kind = "dict" /\ ~ decision.lost
      THEN [tx_on_rx1 |-> decision.tx_on_rx1, lost |-> decision.lost,
            dr |-> adr_settings.dr, tp |-> adr_settings.tp]
      ELSE [tx_on_rx1 |-> decision.tx_on_rx1, lost |-> decision.lost]

\* lines 86-87 and 95-97: the dict returned for an accepted packet
DecisionRecord(decision, adr_settings) ==
    IF adr_settings.kind = "dict"
      THEN [tx_on_rx1 |-> decision.tx_on_rx1, lost |-> decision.lost,
            dr |-> adr_settings.dr, tp |-> adr_settings.tp]
      ELSE [tx_on_rx1 |-> decision.tx_on_rx1, lost |-> decision.lost]

NotChecked == [error |-> "none", possible |-> FALSE, time_on_air |-> 0]

\* the call raises `error`: what was written before the raise stays written
Raise(error, history, received, adr_settings, rx1, rx2) ==
    /\ pc' = "raised"
    /\ packet_history' = history
    /\ num_of_packet_received' = received
    /\ downlink_message' = EmptyDict
    /\ frame' = [error |-> error, weak |-> FALSE, checked |-> FALSE,
                 adr_settings |-> adr_settings, rx1 |-> rx1, rx2 |-> rx2]
    /\ UNCHANGED << channel_time_used, downlink_packets_lost, uplink_packet_weak >>

packet_received ==
    /\ pc = "arrived"
    /\ UNCHANGED << now, call, calls, link_rss >>
    /\ LET node_id == call.node_id
           packet == call.packet
           rss == call.rss
           history0 == LazyHistory(packet_history, node_id)
       IN
       IF packet.sf \notin DOMAIN SENSITIVITY THEN
           /\ Raise("KeyError", history0, num_of_packet_received,
                    AdrNone, NotChecked, NotChecked)
           /\ UNCHANGED accepted
       ELSE IF IsWeak(rss, packet.sf) THEN
           /\ pc' = "returned"
           /\ packet_history' = history0
           /\ uplink_packet_weak' = Append(uplink_packet_weak, packet.id)
           /\ downlink_message' = [weak_packet |-> TRUE]
           /\ frame' = [error |-> "none", weak |-> TRUE, checked |-> FALSE,
                        adr_settings |-> AdrNone, rx1 |-> NotChecked,
                        rx2 |-> NotChecked]
           /\ UNCHANGED << channel_time_used, downlink_packets_lost,
                           num_of_packet_received, accepted >>
       ELSE
           LET snr == rss_to_snr(rss)
               history1 == [history0 EXCEPT ![node_id] = DequeAppend(@, snr)]
               adr_settings == adr(history1[node_id], call.lora_param)
               rx1 == check_duty_cycle(channel_time_used, DOWNLINK_PAYLOAD,
                                       packet.sf, packet.freq, now)
               rx2 == check_duty_cycle(channel_time_used, DOWNLINK_PAYLOAD,
                                       RX_2_DEFAULT_SF, RX_2_DEFAULT_FREQ, now)
               decision == SelectWindow(packet.dr, rx1.possible, rx2.possible)
           IN
           /\ accepted' = [accepted EXCEPT ![node_id] = Append(@, snr)]
           /\ IF adr_settings.kind = "UnboundLocalError" THEN
                  Raise("UnboundLocalError", history1, num_of_packet_received + 1,
                        adr_settings, NotChecked, NotChecked)
              ELSE IF rx1.error # "none" THEN
                  Raise(rx1.error, history1, num_of_packet_received + 1,
                        adr_settings, rx1, NotChecked)
              ELSE IF rx2.error # "none" THEN
                  Raise(rx2.error, history1, num_of_packet_received + 1,
                        adr_settings, rx1, rx2)
              ELSE
                  /\ pc' = "returned"
                  /\ packet_history' = history1
                  /\ num_of_packet_received' = num_of_packet_received + 1
                  /\ downlink_packets_lost' =
                        IF decision.lost
                          THEN Append(downlink_packets_lost, packet.id)
                          ELSE downlink_packets_lost
                  /\ channel_time_used' =
                        LedgerAfter(channel_time_used, decision, packet.freq, rx1, rx2)
                  /\ downlink_message' = DecisionRecord(decision, adr_settings)
                  /\ frame' = [error |-> "none", weak |-> FALSE, checked |-> TRUE,
                               adr_settings |-> adr_settings, rx1 |-> rx1,
                               rx2 |-> rx2]
                  /\ UNCHANGED uplink_packet_weak

\* The engine takes the decision record; the gateway waits for the next arrival
Deliver ==
    /\ pc = "returned"
    /\ pc' = "idle"
    /\ call' = NoCall
    /\ downlink_message' = EmptyDict
    /\ frame' = NoFrame
    /\ UNCHANGED << packet_history, channel_time_used, downlink_packets_lost,
                    uplink_packet_weak, num_of_packet_received, now, calls,
                    accepted, link_rss >>

-----------------------------------------------------------------------------
(* The engine delivers an uplink: packet_received(from_node, packet, now) *)

Uplink(node_id, lora_param, sf, dr, freq, rss, t) ==
    /\ pc = "idle"
    /\ t >= now
    /\ pc' = "arrived"
    /\ now' = t
    /\ calls' = calls + 1
    /\ call' = [node_id |-> node_id, lora_param |-> lora_param,
                packet |-> [id |-> calls + 1, sf |-> sf, dr |-> dr, freq |-> freq],
                rss |-> rss]
    /\ UNCHANGED << packet_history, channel_time_used, downlink_packets_lost,
                    uplink_packet_weak, num_of_packet_received,
                    downlink_message, frame, accepted, link_rss >>

\* Spec: uplinks of two transmitters at SF7 and SF8 on two channels and on a
\* frequency that is no key of the ledger (915000), around the instants at
\* which the 1% cap flips
NowValues == {0, 697, 698, 1000}
UplinkFreqs == {868100, 868300, 915000}
UplinkRates == {3, 4}
UplinkSignals == { << 7, -121 >>, << 8, -121 >>, << 8, -130 >> }

Arrive ==
    /\ calls < MaxCalls
    /\ \E node_id \in Nodes, u \in UplinkSignals, dr \in UplinkRates,
          freq \in UplinkFreqs, t \in NowValues :
          Uplink(node_id, [sf |-> u[1], dr |-> dr, tp |-> TX_MAX],
                 u[1], dr, freq, u[2], t)

Next == Arrive \/ packet_received \/ Deliver

Spec == Init /\ [][Next]_vars

-----------------------------------------------------------------------------
(* SpecFilter: every spreading factor of the sensitivity table, received at  *)
(* and one dBm below every threshold                                         *)

FilterSignals == {SENSITIVITY[sf] - d : sf \in DOMAIN SENSITIVITY, d \in {0, 1}}

ArriveFilter ==
    /\ calls < MaxCallsFilter
    /\ \E node_id \in Nodes, sf \in DOMAIN SENSITIVITY, rss \in FilterSignals :
          Uplink(node_id, [sf |-> sf, dr |-> DR_MAX, tp |-> TX_MAX],
                 sf, DR_MAX, 868100, rss, now)

NextFilter == ArriveFilter \/ packet_received \/ Deliver

SpecFilter == Init /\ [][NextFilter]_vars

-----------------------------------------------------------------------------
(* SpecAdr: one transmitter sends an SF12 uplink every 120 time units; its    *)
(* link has the strength link_rss with a fading of period three, and some    *)
(* uplinks are too weak.  The transmitter's settings are read at each uplink. *)

NextUplinkTime(t) == t + 120
LinkRssValues == {-127, -121, -118, -116, -113, -112}
WeakRss == SENSITIVITY[12] - 1
NodeSettings == [sf : {6, 7, 9, 12}, dr : {0, 2, 5}, tp : {2, 5, 14}]

Fade(k) == k % 3

InitAdr ==
    /\ packet_history = EmptyDict
    /\ channel_time_used = [f \in CHANNELS \cup DEFAULT_CHANNELS |-> 0]
    /\ downlink_packets_lost = << >>
    /\ uplink_packet_weak = << >>
    /\ num_of_packet_received = 0
    /\ now = 0
    /\ call = NoCall
    /\ pc = "idle"
    /\ downlink_message = EmptyDict
    /\ frame = NoFrame
    /\ calls = 0
    /\ accepted = [n \in Nodes |-> << >>]
    /\ link_rss \in LinkRssValues

ArrivePeriodic ==
    /\ calls < MaxCallsAdr
    /\ \E lora_param \in NodeSettings,
          rss \in {link_rss - Fade(Len(accepted[1]) + 1)} \cup
                  (IF Len(uplink_packet_weak) < MaxWeakAdr THEN {WeakRss} ELSE {}) :
          Uplink(1, lora_param, 12, 0, 868100, rss, NextUplinkTime(now))

NextAdr == ArrivePeriodic \/ packet_received \/ Deliver

SpecAdr == InitAdr /\ [][NextAdr]_vars

-----------------------------------------------------------------------------
(* The properties *)

\* a step of packet_received that returns a decision for an accepted packet
Decided == pc = "arrived" /\ pc' = "returned" /\ ~ frame'.weak

\* the two checks of lines 57-59, evaluated on the ledger before the call
PossibleRx1 ==
    check_duty_cycle(channel_time_used, DOWNLINK_PAYLOAD, call.packet.sf,
                     call.packet.freq, now).possible
PossibleRx2 ==
    check_duty_cycle(channel_time_used, DOWNLINK_PAYLOAD, RX_2_DEFAULT_SF,
                     RX_2_DEFAULT_FREQ, now).possible

\* C1: for an accepted packet, a data rate above 3 puts the downlink on RX1
\* whenever RX1 is admissible and on RX2 only when RX1 is not and RX2 is; a
\* data rate of at most 3 puts it on RX2 whenever RX2 is admissible and on RX1
\* only when RX2 is not and RX1 is; no downlink goes on an inadmissible window.
C1_WindowPrecedence ==
    [][ Decided =>
          LET m == downlink_message'
              onRx1 == ~ m.lost /\ m.tx_on_rx1
              onRx2 == ~ m.lost /\ ~ m.tx_on_rx1
          IN  /\ call.packet.dr > 3 =>
                    /\ PossibleRx1 => onRx1
                    /\ onRx2 <=> (~ PossibleRx1 /\ PossibleRx2)
              /\ call.packet.dr <= 3 =>
                    /\ PossibleRx2 => onRx2
                    /\ onRx1 <=> (~ PossibleRx2 /\ PossibleRx1)
              /\ onRx1 => PossibleRx1
              /\ onRx2 => PossibleRx2 ]_vars

\* C1 witness: a fast uplink whose RX1 is inadmissible is answered on RX2
C1_Witness ==
    /\ pc = "returned" /\ frame.checked
    /\ call.packet.dr > 3
    /\ ~ frame.rx1.possible /\ frame.rx2.possible
    /\ ~ downlink_message.lost /\ ~ downlink_message.tx_on_rx1

\* C2: the decision is lost exactly when both windows are inadmissible,
\* whatever the data rate; the packet is then appended once to
\* downlink_packets_lost, tx_on_rx1 is false and the ledger is unchanged;
\* otherwise lost is false and downlink_packets_lost is unchanged.
C2_LostIffBothInadmissible ==
    [][ Decided =>
          LET m == downlink_message'
          IN  /\ m.lost <=> (~ PossibleRx1 /\ ~ PossibleRx2)
              /\ m.lost =>
                    /\ downlink_packets_lost' =
                          Append(downlink_packets_lost, call.packet.id)
                    /\ ~ m.tx_on_rx1
                    /\ channel_time_used' = channel_time_used
              /\ ~ m.lost => downlink_packets_lost' = downlink_packets_lost ]_vars

\* C2 witness: a slow uplink finds both windows inadmissible and is lost
C2_Witness ==
    /\ pc = "returned" /\ frame.checked
    /\ call.packet.dr <= 3
    /\ ~ frame.rx1.possible /\ ~ frame.rx2.possible
    /\ downlink_message.lost
    /\ downlink_packets_lost # << >>
    /\ downlink_packets_lost[Len(downlink_packets_lost)] = call.packet.id

\* C3: on a non-lost decision the ledger of the chosen window's channel (the
\* uplink frequency on RX1, the RX2 default frequency otherwise) grows by that
\* window's time on air, and no other entry of the ledger changes.
C3_OnlyChosenLedger ==
    [][ (Decided /\ ~ downlink_message'.lost) =>
          LET onRx1 == downlink_message'.tx_on_rx1
              chosen == IF onRx1 THEN call.packet.freq ELSE RX_2_DEFAULT_FREQ
              toa == IF onRx1 THEN time_on_air(DOWNLINK_PAYLOAD, call.packet.sf)
                     ELSE time_on_air(DOWNLINK_PAYLOAD, RX_2_DEFAULT_SF)
          IN  /\ DOMAIN channel_time_used' = DOMAIN channel_time_used
              /\ channel_time_used'[chosen] = channel_time_used[chosen] + toa
              /\ \A f \in DOMAIN channel_time_used \ {chosen} :
                    channel_time_used'[f] = channel_time_used[f] ]_vars

\* C3 witness: a downlink was sent on RX1 of a channel while the RX2 channel,
\* used before, kept its ledger
C3_Witness ==
    /\ pc = "returned" /\ frame.checked
    /\ ~ downlink_message.lost /\ downlink_message.tx_on_rx1
    /\ frame.rx2.possible
    /\ channel_time_used[RX_2_DEFAULT_FREQ] > 0
    /\ channel_time_used[call.packet.freq] >= frame.rx1.time_on_air

\* a step of packet_received that ends, by a return or by a raise
Handled == pc = "arrived" /\ pc' \in {"returned", "raised"}

\* C4: for every spreading factor 6..12, a packet received below the
\* sensitivity of its spreading factor is answered weak_packet = true and
\* appended to uplink_packet_weak, and leaves the histories (keys included),
\* the counter of received packets and the ledger as they were; a packet
\* received at the threshold is not rejected.
C4_WeakPacketNoMutation ==
    [][ Handled =>
          /\ call.rss < SENSITIVITY[call.packet.sf] =>
                /\ pc' = "returned"
                /\ downlink_message' = [weak_packet |-> TRUE]
                /\ uplink_packet_weak' = Append(uplink_packet_weak, call.packet.id)
                /\ DOMAIN packet_history' = DOMAIN packet_history
                /\ packet_history' = packet_history
                /\ num_of_packet_received' = num_of_packet_received
                /\ channel_time_used' = channel_time_used
          /\ call.rss = SENSITIVITY[call.packet.sf] =>
                /\ "weak_packet" \notin DOMAIN downlink_message'
                /\ uplink_packet_weak' = uplink_packet_weak ]_vars

\* the samples of transmitter n, as the counter of received packets counts them
Samples(n) == accepted[n]

\* C5: every history holds at most 20 samples and is, in arrival order, the
\* SNR of the transmitter's last min(k, 20) accepted packets; after 21
\* accepted packets these are the samples 2 to 21.  The samples are those of
\* the packets counted as received: a weak packet adds none.
C5_HistoryIsLastTwenty ==
    /\ num_of_packet_received = Len(Samples(1)) + Len(Samples(2))
    /\ \A n \in Nodes : n \notin DOMAIN packet_history => Samples(n) = << >>
    /\ \A n \in DOMAIN packet_history :
          /\ Len(packet_history[n]) <= 20
          /\ Len(packet_history[n]) =
                (IF Len(Samples(n)) <= 20 THEN Len(Samples(n)) ELSE 20)
          /\ \A i \in 1..Len(packet_history[n]) :
                packet_history[n][i] =
                    Samples(n)[Len(Samples(n)) - Len(packet_history[n]) + i]
          /\ Len(Samples(n)) = 21 =>
                packet_history[n] = SubSeq(Samples(n), 2, 21)

\* C5 witness: 21 accepted packets and a weak one; the first sample is gone
C5_Witness ==
    /\ pc = "returned"
    /\ Len(Samples(1)) = 21
    /\ Len(uplink_packet_weak) = 1
    /\ Len(packet_history[1]) = 20
    /\ packet_history[1][1] = Samples(1)[2]
    /\ packet_history[1][1] # Samples(1)[1]
    /\ packet_history[1][20] = Samples(1)[21]

\* C6: an accepted packet yields a proposal exactly when the history of its
\* transmitter, the new sample included, holds 20 samples.
C6_ProposalIffFullHistory ==
    (pc \in {"returned", "raised"} /\ ~ IsWeak(call.rss, call.packet.sf)) =>
        (frame.adr_settings.kind = "dict"
            <=> Len(packet_history[call.node_id]) = 20)

\* the scenario of C7: a full history of maximum 5 dB, a transmitter at
\* SF9, data rate 2 and 14 dBm
C7_Scenario ==
    /\ pc = "returned" /\ ~ frame.weak
    /\ Len(packet_history[call.node_id]) = 20
    /\ SeqMax(packet_history[call.node_id]) = 5
    /\ call.lora_param = [sf |-> 9, dr |-> 2, tp |-> 14]

\* C7 as claimed: in the scenario adr takes 3 steps and proposes data rate 5
\* at 14 dBm.
C7_ScenarioProposesDr5 ==
    C7_Scenario =>
        /\ frame.adr_settings = [kind |-> "dict", dr |-> 5, tp |-> 14]
        /\ downlink_message.dr = 5 /\ downlink_message.tp = 14

\* C7 as amended: in the scenario the margin is 7.5 dB, 7.5 / 3 = 2.5 is a
\* tie that np.round takes to the even 2, and adr proposes data rate 4 at an
\* unchanged 14 dBm.
C7_ScenarioProposesDr4 ==
    C7_Scenario =>
        /\ SnrMargin2(packet_history[call.node_id], 9) = 15
        /\ NumSteps(packet_history[call.node_id], 9) = 2
        /\ frame.adr_settings = [kind |-> "dict", dr |-> 4, tp |-> 14]
        /\ downlink_message.dr = 4 /\ downlink_message.tp = 14

\* C7 witness: the scenario, on the 20th accepted packet
C7_Witness == C7_Scenario /\ Len(Samples(call.node_id)) = 20

\* the channel, the time on air and the cap of the window a decision chose
ChosenFreq(m) == IF m.tx_on_rx1 THEN call.packet.freq ELSE RX_2_DEFAULT_FREQ
ChosenToa(m) ==
    IF m.tx_on_rx1 THEN time_on_air(DOWNLINK_PAYLOAD, call.packet.sf)
    ELSE time_on_air(DOWNLINK_PAYLOAD, RX_2_DEFAULT_SF)

\* C8 as claimed: every scheduled downlink keeps its channel within the cap,
\* (used + toa) / (now + toa) x 100 <= cap, the first one of a channel too.
C8_ScheduledWithinCap ==
    [][ (Decided /\ ~ downlink_message'.lost) =>
          LET f == ChosenFreq(downlink_message')
              toa == ChosenToa(downlink_message')
          IN  (channel_time_used[f] + toa) * 100
                  <= CHANNEL_DUTY_CYCLE_PROC[f] * (now + toa) ]_vars

\* C8 as amended: every downlink scheduled on a channel already used (its
\* ledger was not zero before the call) keeps that channel within the cap.
C8_ScheduledOnUsedChannelWithinCap ==
    [][ (Decided /\ ~ downlink_message'.lost) =>
          LET f == ChosenFreq(downlink_message')
              toa == ChosenToa(downlink_message')
          IN  channel_time_used[f] # 0 =>
                  /\ (channel_time_used[f] + toa) * 100
                        <= CHANNEL_DUTY_CYCLE_PROC[f] * (now + toa)
                  /\ (channel_time_used'[f]) * 100
                        <= CHANNEL_DUTY_CYCLE_PROC[f] * (now + toa) ]_vars

\* C8 witness: a downlink scheduled on a channel that was used before
C8_Witness ==
    /\ pc = "returned" /\ frame.checked
    /\ ~ downlink_message.lost
    /\ channel_time_used[ChosenFreq(downlink_message)]
          > ChosenToa(downlink_message)

\* C9: on a channel whose used time is zero check_duty_cycle answers
\* admissible with the time on air of the window, whatever now is; so an
\* uplink whose preferred window is on an unused channel is answered there.
C9_UnusedChannelAdmissible ==
    [][ Decided =>
          /\ channel_time_used[call.packet.freq] = 0 =>
                /\ frame'.rx1.possible
                /\ frame'.rx1.time_on_air
                      = time_on_air(DOWNLINK_PAYLOAD, call.packet.sf)
                /\ call.packet.dr > 3 =>
                      ~ downlink_message'.lost /\ downlink_message'.tx_on_rx1
          /\ channel_time_used[RX_2_DEFAULT_FREQ] = 0 =>
                /\ frame'.rx2.possible
                /\ frame'.rx2.time_on_air
                      = time_on_air(DOWNLINK_PAYLOAD, RX_2_DEFAULT_SF)
                /\ call.packet.dr <= 3 =>
                      ~ downlink_message'.lost /\ ~ downlink_message'.tx_on_rx1 ]_vars

\* C9 witness: at now = 0 the first downlink of a channel goes out on RX1
C9_Witness ==
    /\ pc = "returned" /\ frame.checked
    /\ now = 0
    /\ frame.rx1.possible
    /\ ~ downlink_message.lost /\ downlink_message.tx_on_rx1
    /\ channel_time_used[call.packet.freq] = frame.rx1.time_on_air

\* C10: on a channel whose used time is not zero check_duty_cycle answers
\* admissible exactly when (used + toa) / (now + toa) x 100 <= cap, equality
\* included; for the same now and toa every smaller used time is admissible
\* when this one is and every larger one inadmissible when this one is; and
\* cap 1, now 1000, used 5, toa 2 is admissible.
C10_AdmissibleIffWithinCap ==
    [][ Decided =>
          /\ \A w \in { << call.packet.freq, call.packet.sf, frame'.rx1 >>,
                        << RX_2_DEFAULT_FREQ, RX_2_DEFAULT_SF, frame'.rx2 >> } :
                LET used == channel_time_used[w[1]]
                    toa == time_on_air(DOWNLINK_PAYLOAD, w[2])
                    cap == CHANNEL_DUTY_CYCLE_PROC[w[1]]
                IN  used # 0 =>
                      /\ w[3].possible <=> (used + toa) * 100 <= cap * (now + toa)
                      /\ w[3].possible =>
                            \A u \in 1..used : DutyCycleAllowed(u, toa, now, cap)
                      /\ ~ w[3].possible =>
                            \A u \in used..(2 * used) :
                                ~ DutyCycleAllowed(u, toa, now, cap)
          /\ DutyCycleAllowed(5, 2, 1000, 1) ]_vars

\* C10 witness: cap 1, now = 1000, used = 5 and a time on air of 2: the
\* downlink is sent on RX1 and the ledger reads 7
C10_Witness ==
    /\ pc = "returned" /\ frame.checked
    /\ now = 1000
    /\ CHANNEL_DUTY_CYCLE_PROC[call.packet.freq] = 1
    /\ frame.rx1.time_on_air = 2
    /\ frame.rx1.possible
    /\ downlink_message.tx_on_rx1 /\ ~ downlink_message.lost
    /\ channel_time_used[call.packet.freq] = 7

-----------------------------------------------------------------------------
(* SpecApi: besides uplinks, the engine calls check_duty_cycle and log       *)
(* directly, at any time between two uplinks.                                *)

MaxCallsApi == 2

GatewayState == << packet_history, channel_time_used, downlink_packets_lost,
                   uplink_packet_weak, num_of_packet_received >>

\* check_duty_cycle commits as soon as the window is admissible
LedgerAfterCheckCommits(used, freq, result) ==
    IF result.error = "none" /\ result.possible
      THEN [used EXCEPT ![freq] = @ + result.time_on_air]
      ELSE used

\* lines 100-111: check_duty_cycle assigns nothing to self
LedgerAfterCheck(used, freq, result) == used

CheckSfs == {7, 12}
CheckFreqs == {868100, RX_2_DEFAULT_FREQ, 915000}

\* a direct call check_duty_cycle(12, sf, freq, now)
check_duty_cycle_call ==
    /\ pc = "idle"
    /\ \E sf \in CheckSfs, freq \in CheckFreqs :
          LET result == check_duty_cycle(channel_time_used, DOWNLINK_PAYLOAD,
                                         sf, freq, now)
          IN  /\ pc' = IF result.error = "none" THEN "checked" ELSE "raised"
              /\ call' = [node_id |-> 0, check |-> [sf |-> sf, freq |-> freq]]
              /\ frame' = [error |-> result.error, weak |-> FALSE,
                           checked |-> FALSE, adr_settings |-> AdrNone,
                           rx1 |-> result, rx2 |-> NotChecked]
              /\ channel_time_used' = LedgerAfterCheck(channel_time_used, freq, result)
    /\ downlink_message' = EmptyDict
    /\ UNCHANGED << packet_history, downlink_packets_lost, uplink_packet_weak,
                    num_of_packet_received, now, calls, accepted, link_rss >>

\* lines 179-181: channel_time_used[channel] / self.env.now for every channel
\* of the ledger (never empty), with no test of env.now
LogError(t) == IF t = 0 THEN "ZeroDivisionError" ELSE "none"

\* Gateway.log(): prints, and changes nothing
log ==
    /\ pc = "idle"
    /\ pc' = IF LogError(now) = "none" THEN "logged" ELSE "raised"
    /\ call' = [node_id |-> 0, log |-> TRUE]
    /\ frame' = [error |-> LogError(now), weak |-> FALSE, checked |-> FALSE,
                 adr_settings |-> AdrNone, rx1 |-> NotChecked, rx2 |-> NotChecked]
    /\ downlink_message' = EmptyDict
    /\ UNCHANGED << packet_history, channel_time_used, downlink_packets_lost,
                    uplink_packet_weak, num_of_packet_received, now, calls,
                    accepted, link_rss >>

\* the direct call has returned to the engine
Resume ==
    /\ pc \in {"checked", "logged"}
    /\ pc' = "idle"
    /\ call' = NoCall
    /\ frame' = NoFrame
    /\ UNCHANGED << packet_history, channel_time_used, downlink_packets_lost,
                    uplink_packet_weak, num_of_packet_received, now, calls,
                    accepted, link_rss, downlink_message >>

ApiNowValues == {0, 697, 1000}
ApiFreqs == {868100, 915000}
ApiSignals == { << 7, -121 >>, << 8, -130 >> }

ArriveApi ==
    /\ calls < MaxCallsApi
    /\ \E u \in ApiSignals, dr \in UplinkRates, freq \in ApiFreqs,
          t \in ApiNowValues :
          Uplink(1, [sf |-> u[1], dr |-> dr, tp |-> TX_MAX],
                 u[1], dr, freq, u[2], t)

NextApi ==
    ArriveApi \/ packet_received \/ Deliver \/ check_duty_cycle_call \/ log \/ Resume

SpecApi == Init /\ [][NextApi]_vars

\* a step that is a direct call of check_duty_cycle
CheckStep == pc = "idle" /\ pc' \in {"checked", "raised"} /\ "check" \in DOMAIN call'

\* C11: check_duty_cycle changes nothing of the gateway (ledger, histories,
\* counter, lost and weak lists), whatever its input and its result; the
\* ledger changes only in a packet_received that returns a non-lost decision.
C11_CheckDutyCyclePure ==
    [][ /\ CheckStep => GatewayState' = GatewayState
        /\ channel_time_used' # channel_time_used =>
              Decided /\ ~ downlink_message'.lost ]_vars

\* C11 witness: a direct check found a used channel admissible, and the
\* ledger still reads what it read
C11_Witness ==
    /\ pc = "checked"
    /\ frame.rx1.possible
    /\ channel_time_used[call.check.freq] > 0
    /\ now > 0

\* the proposal of adr for the call that has just returned, recomputed from
\* the transmitter's history and settings
ProposalOfCall == adr(packet_history[call.node_id], call.lora_param)

\* C12: the record returned for an accepted packet has tx_on_rx1 and lost, no
\* weak_packet, and has dr and tp (those of the proposal) exactly when adr
\* produced a proposal, lost or not; the record for a weak packet is exactly
\* weak_packet = true.
C12_RecordFields ==
    pc = "returned" =>
      IF frame.weak
        THEN downlink_message = [weak_packet |-> TRUE]
        ELSE LET own == ProposalOfCall
             IN  /\ {"tx_on_rx1", "lost"} \subseteq DOMAIN downlink_message
                 /\ DOMAIN downlink_message \subseteq {"tx_on_rx1", "lost", "dr", "tp"}
                 /\ downlink_message.tx_on_rx1 \in BOOLEAN
                 /\ downlink_message.lost \in BOOLEAN
                 /\ IF own.kind = "dict"
                      THEN /\ {"dr", "tp"} \subseteq DOMAIN downlink_message
                           /\ downlink_message.dr = own.dr
                           /\ downlink_message.tp = own.tp
                      ELSE DOMAIN downlink_message = {"tx_on_rx1", "lost"}

\* C12 witness: a lost downlink whose record carries the ADR proposal, after
\* a weak packet was answered with the weak record
C12_Witness ==
    /\ pc = "returned"
    /\ ~ frame.weak
    /\ downlink_message.lost
    /\ "dr" \in DOMAIN downlink_message
    /\ Len(uplink_packet_weak) > 0

\* a step that is a call of log
LogStep == pc = "idle" /\ pc' \in {"logged", "raised"} /\ "log" \in DOMAIN call'

\* C13: log called while the clock reads 0 completes (no division by zero)
\* and leaves the gateway state unchanged.
C13_LogGuardedAtZero ==
    [][ (LogStep /\ now = 0) =>
           /\ pc' = "logged"
           /\ frame'.error = "none"
           /\ GatewayState' = GatewayState ]_vars

\* the frequencies registered by the constructor
Registered == DOMAIN channel_time_used

\* a packet_received step for an accepted packet on an unregistered frequency
HandledUnregistered ==
    /\ Handled
    /\ ~ IsWeak(call.rss, call.packet.sf)
    /\ call.packet.freq \notin Registered

\* C14: a duty-cycle check for a frequency that is no key of the ledger, called
\* directly or by packet_received for an accepted packet, ends in KeyError:
\* no result and no decision record is returned, and the ledger keeps its
\* keys and values.
C14_UnregisteredFailsLoudly ==
    [][ /\ (CheckStep /\ call'.check.freq \notin Registered) =>
              /\ pc' = "raised"
              /\ frame'.error = "KeyError"
              /\ channel_time_used' = channel_time_used
        /\ HandledUnregistered =>
              /\ pc' = "raised"
              /\ frame'.error = "KeyError"
              /\ downlink_message' = EmptyDict
              /\ channel_time_used' = channel_time_used ]_vars

\* C14 witness: after a downlink was charged to a registered channel, an
\* accepted packet on an unregistered frequency ended the call in KeyError
C14_Witness ==
    /\ pc = "raised"
    /\ frame.error = "KeyError"
    /\ "packet" \in DOMAIN call
    /\ call.packet.freq \notin Registered
    /\ num_of_packet_received = MaxCallsApi
    /\ \E f \in Registered : channel_time_used[f] > 0

\* a call for an accepted packet has returned with a full history
FullHistoryReturned ==
    /\ pc = "returned" /\ ~ frame.weak
    /\ Len(packet_history[call.node_id]) = 20

\* the margin of the call, doubled, and the step_count of a doubled margin:
\* the integer nearest to margin / 3, the even one of the two when margin / 3
\* lies halfway
CallMargin2 == SnrMargin2(packet_history[call.node_id], call.lora_param.sf)
StepCount(margin2) ==
    CHOOSE k \in -20 .. 20 :
        /\ (6 * k - margin2) \in -3 .. 3
        /\ (6 * k - margin2) \in {-3, 3} => k % 2 = 0
Room == 5 - call.lora_param.dr

\* C15: with a full history and 0 <= step_count <= 5 - current data rate, the
\* proposal is data rate + step_count at the current power; margin / 3 = 0.5
\* and margin / 3 = -0.5 give step_count 0 and the current pair.
C15_StepsWithinRoom ==
    FullHistoryReturned =>
        LET margin2 == CallMargin2
            step_count == StepCount(margin2)
        IN  /\ (step_count >= 0 /\ step_count <= Room) =>
                  /\ downlink_message.dr = call.lora_param.dr + step_count
                  /\ downlink_message.tp = call.lora_param.tp
            /\ margin2 \in {-3, 3} =>
                  /\ step_count = 0
                  /\ downlink_message.dr = call.lora_param.dr
                  /\ downlink_message.tp = call.lora_param.tp

\* C15 witness: margin / 3 = -0.5 exactly, for a transmitter below 14 dBm
C15_Witness ==
    /\ FullHistoryReturned
    /\ CallMargin2 = -3
    /\ call.lora_param.tp < TX_MAX

\* C16: with a full history and step_count > 5 - current data rate, the
\* proposal is data rate 5 at max(power - 3 x (step_count - room), 2), a power
\* that is neither below 2 nor above the current one.
C16_StepsBeyondRoom ==
    FullHistoryReturned =>
        LET step_count == StepCount(CallMargin2)
        IN  step_count > Room =>
              /\ downlink_message.dr = 5
              /\ downlink_message.tp =
                    Max2(call.lora_param.tp - 3 * (step_count - Room), 2)
              /\ downlink_message.tp >= 2
              /\ downlink_message.tp <= call.lora_param.tp

\* C16 witness: the floor acts: the remaining steps would take the power
\* below 2 dBm
C16_Witness ==
    /\ FullHistoryReturned
    /\ call.lora_param.dr < 5
    /\ call.lora_param.tp - 3 * (StepCount(CallMargin2) - Room) < 2
    /\ downlink_message.dr = 5
    /\ downlink_message.tp = 2

\* C17: with a full history and step_count < 0 the proposal is the current
\* data rate at min(power + 3 x |step_count|, 14); whatever the branch, the
\* proposed data rate is not below the current one and the proposed power is
\* in [2, 14].
C17_NegativeStepsRaisePower ==
    FullHistoryReturned =>
        LET step_count == StepCount(CallMargin2)
        IN  /\ step_count < 0 =>
                  /\ downlink_message.tp =
                        Min2(call.lora_param.tp + 3 * (- step_count), 14)
                  /\ downlink_message.dr = call.lora_param.dr
            /\ downlink_message.dr >= call.lora_param.dr
            /\ downlink_message.tp \in 2 .. 14

\* C17 witness: the ceiling acts: the raise would take 5 dBm above 14
C17_Witness ==
    /\ FullHistoryReturned
    /\ call.lora_param.tp = 5
    /\ call.lora_param.tp + 3 * (- StepCount(CallMargin2)) > 14
    /\ downlink_message.dr = call.lora_param.dr
    /\ downlink_message.tp = 14

\* C18: packet_received never ends in an error for a packet with a spreading
\* factor of the sensitivity table, a transmitter at a spreading factor in
\* 6..12 and registered frequencies, whatever the length of the history.
C18_TotalOnValidInputs ==
    (/\ "packet" \in DOMAIN call
     /\ call.packet.sf \in DOMAIN SENSITIVITY
     /\ call.lora_param.sf \in 6 .. 12
     /\ call.packet.freq \in Registered
     /\ RX_2_DEFAULT_FREQ \in Registered) => pc # "raised"

-----------------------------------------------------------------------------
(* SpecPair: transmitter 1 sends periodically until its history is full,     *)
(* while transmitter 2, on a much better link, sends a few packets (strong   *)
(* or weak) at any point in between.                                         *)

MaxCallsPair == 22
MaxOtherCalls == 2

PairSettings == [sf |-> 7, dr |-> 2, tp |-> TX_MAX]
PairRss == [n \in Nodes |-> IF n = 1 THEN -113 ELSE -100]

ArrivePair ==
    /\ calls < MaxCallsPair
    /\ \/ Uplink(1, PairSettings, 12, 0, 868100,
                 PairRss[1] - Fade(Len(accepted[1]) + 1), NextUplinkTime(now))
       \/ /\ calls - Len(accepted[1]) < MaxOtherCalls
          /\ \E rss \in {PairRss[2], WeakRss} :
                Uplink(2, PairSettings, 12, 0, 868100, rss, NextUplinkTime(now))

NextPair == ArrivePair \/ packet_received \/ Deliver

SpecPair == Init /\ [][NextPair]_vars

\* C19: a packet_received call for a transmitter, whatever its outcome, keeps
\* every other transmitter's history as it was and adds no key but its own;
\* the proposal it returns is adr on the last 20 SNR samples of the
\* transmitter's own accepted packets and on its own settings.
C19_HistoriesIsolated ==
    [][ Handled =>
          /\ \A n \in DOMAIN packet_history \ {call.node_id} :
                /\ n \in DOMAIN packet_history'
                /\ packet_history'[n] = packet_history[n]
          /\ DOMAIN packet_history' \subseteq DOMAIN packet_history \cup {call.node_id}
          /\ (pc' = "returned" /\ ~ frame'.weak) =>
                LET own == adr(LastN(accepted'[call.node_id], 20), call.lora_param)
                IN  /\ frame'.adr_settings = own
                    /\ own.kind = "dict" =>
                          /\ downlink_message'.dr = own.dr
                          /\ downlink_message'.tp = own.tp ]_vars

\* C19 witness: transmitter 1 gets a proposal from its own 20 samples after
\* transmitter 2 had stronger packets accepted and a weak one dropped
C19_Witness ==
    /\ pc = "returned" /\ ~ frame.weak
    /\ call.node_id = 1
    /\ frame.adr_settings.kind = "dict"
    /\ Len(accepted[2]) > 0
    /\ Len(uplink_packet_weak) > 0
    /\ SeqMax(accepted[2]) > SeqMax(packet_history[1])
    /\ packet_history[2] = accepted[2]

\* C20: while every call returns, each call is counted once, as received or
\* as weak; the counter is the number of SNR samples ever appended; the lost
\* list is no longer than the counter; counter and lists never shrink; every
\* ledger entry is non-negative and never decreases.
C20_CountersAccount ==
    [][ (Handled /\ pc' = "returned") =>
          /\ calls' = num_of_packet_received' + Len(uplink_packet_weak')
          /\ num_of_packet_received' = Len(Samples(1)') + Len(Samples(2)')
          /\ Len(downlink_packets_lost') <= num_of_packet_received'
          /\ num_of_packet_received' >= num_of_packet_received
          /\ Len(uplink_packet_weak') >= Len(uplink_packet_weak)
          /\ Len(downlink_packets_lost') >= Len(downlink_packets_lost)
          /\ DOMAIN channel_time_used' = DOMAIN channel_time_used
          /\ \A f \in DOMAIN channel_time_used :
                /\ channel_time_used[f] >= 0
                /\ channel_time_used'[f] >= channel_time_used[f] ]_vars

\* C20 witness: two downlinks were charged to the ledger, a third was lost
C20_Witness ==
    /\ pc = "returned"
    /\ calls = num_of_packet_received + Len(uplink_packet_weak)
    /\ Len(downlink_packets_lost) > 0
    /\ Len(downlink_packets_lost) < num_of_packet_received
    /\ \E f \in DOMAIN channel_time_used : channel_time_used[f] > 0

====
